---- MODULE Spec2Model ----
(***************************************************************************)
(* One-dimensional minimisation front-end (modelado-iue).                  *)
(*                                                                         *)
(* The four optimizer components (Golden-section, Fibonacci, Bisection,    *)
(* Newton) with their form state, their run handlers and the search        *)
(* functions the handlers call.  A search function is modelled pass by     *)
(* pass: its locals are the record loc, its position is pc.                *)
(*                                                                         *)
(* JavaScript numbers are modelled as binary fixed-point numbers with 26   *)
(* fractional bits: the integer n stands for n / SCALE, SCALE = 2^26, so   *)
(* that the numbers of magnitude below 32 are represented.  Sums and       *)
(* differences are exact, products and quotients are truncated to the last *)
(* bit.  NaN and the two infinities are three reserved integers.           *)
(***************************************************************************)
EXTENDS Integers, Sequences, FiniteSets, TLC

\* ------------------------------------------------------------------------
\* Numbers
\* ------------------------------------------------------------------------
Base == 2^13
SCALE == Base * Base

PosInf == (2^30 - 1) * 2 + 1
NegInf == -PosInf
NaN == NegInf + 1

IsNaN(x) == x = NaN
IsFinite(x) == x # NaN /\ x # PosInf /\ x # NegInf

Abs(x) == IF x < 0 THEN -x ELSE x
Sign(x) == IF x < 0 THEN -1 ELSE 1

\* n as a number of the model (n an integer literal of the source)
Num(n) == n * SCALE

\* JavaScript x < y: false as soon as an operand is NaN
Lt(x, y) == ~IsNaN(x) /\ ~IsNaN(y) /\ x < y

\* JavaScript x > y
Gt(x, y) == Lt(y, x)

\* JavaScript unary minus
Neg(x) == IF IsNaN(x) THEN NaN ELSE -x

\* JavaScript x + y
Add(x, y) ==
    IF IsNaN(x) \/ IsNaN(y) THEN NaN
    ELSE IF ~IsFinite(x) THEN (IF ~IsFinite(y) /\ y # x THEN NaN ELSE x)
    ELSE IF ~IsFinite(y) THEN y
    ELSE x + y

\* JavaScript x - y
Sub(x, y) == Add(x, Neg(y))

\* |x| * |y| / SCALE, truncated, computed on the halves of the operands so
\* that no intermediate product leaves the 32-bit integers of TLC; a product
\* of magnitude 32 or more is beyond the numbers of the model: Infinity
MulMag(x, y) ==
    LET xh == x \div Base
        xl == x % Base
        yh == y \div Base
        yl == y % Base
    IN  IF yh # 0 /\ xh > PosInf \div yh THEN PosInf
        ELSE xh * yh + ((xh * yl + xl * yh) + ((xl * yl) \div Base)) \div Base

\* JavaScript x * y
Mul(x, y) ==
    IF IsNaN(x) \/ IsNaN(y) THEN NaN
    ELSE IF ~IsFinite(x) \/ ~IsFinite(y)
    THEN (IF x = 0 \/ y = 0 THEN NaN ELSE Sign(x) * Sign(y) * PosInf)
    ELSE Sign(x) * Sign(y) * MulMag(Abs(x), Abs(y))

\* the first bits fractional bits of r / q, for 0 <= r < q (long division;
\* 2 r >= q is tested as r >= q - r, which stays in range)
RECURSIVE FracBits(_, _, _)
FracBits(r, q, bits) ==
    IF bits = 0 THEN 0
    ELSE IF r >= q - r
    THEN 2^(bits - 1) + FracBits(r - (q - r), q, bits - 1)
    ELSE FracBits(r + r, q, bits - 1)

\* |x| / |y| for y # 0, truncated to the last fractional bit; a quotient of
\* magnitude 32 or more is beyond the numbers of the model: Infinity
DivMag(x, y) ==
    IF x \div y >= 32 THEN PosInf
    ELSE (x \div y) * SCALE + FracBits(x % y, y, 26)

\* JavaScript x / y; a zero divisor gives NaN or an infinity
Div(x, y) ==
    IF IsNaN(x) \/ IsNaN(y) THEN NaN
    ELSE IF ~IsFinite(x) THEN (IF ~IsFinite(y) THEN NaN ELSE Sign(x) * Sign(y) * PosInf)
    ELSE IF ~IsFinite(y) THEN 0
    ELSE IF y = 0 THEN (IF x = 0 THEN NaN ELSE Sign(x) * PosInf)
    ELSE Sign(x) * Sign(y) * DivMag(Abs(x), Abs(y))

\* JavaScript x / 2
Half(x) == IF IsFinite(x) THEN Sign(x) * (Abs(x) \div 2) ELSE x

\* Math.abs
MathAbs(x) == IF IsNaN(x) THEN NaN ELSE Abs(x)

\* pi and 2 pi to 26 fractional bits
Pi == 3 * SCALE + 9502122
TwoPi == 2 * Pi

\* y reduced to [-pi, pi) modulo 2 pi
ReducePi(y) == y - TwoPi * ((y + Pi) \div TwoPi)

\* the Taylor terms t, -t y^2/((m+1)(m+2)), ... of the sine, summed
RECURSIVE SinTerms(_, _, _, _)
SinTerms(t, y2, m, left) ==
    IF left = 0 THEN 0
    ELSE t + SinTerms(-(Mul(t, y2) \div ((m + 1) * (m + 2))), y2, m + 2, left - 1)

\* sine of y in [-pi/2, pi/2]
SinSmall(y) == SinTerms(y, Mul(y, y), 1, 8)

\* sine of r in [-pi, pi)
SinReduced(r) ==
    IF r > Pi \div 2 THEN SinSmall(Pi - r)
    ELSE IF r < -(Pi \div 2) THEN SinSmall(-Pi - r)
    ELSE SinSmall(r)

\* m * x - k * 2 pi for the integer k that brings it into [0, 2 pi + m), formed
\* without the product m * x, which may leave the range of the model
TimesReduced(m, x) ==
    LET period == TwoPi \div m
        k == x \div period
    IN  m * (x - k * period) - k * (TwoPi - m * period)

\* Math.sin(m * x) and Math.cos(m * x) for an integer literal m > 0
SinOf(m, x) == IF ~IsFinite(x) THEN NaN ELSE SinReduced(ReducePi(TimesReduced(m, x)))

CosOf(m, x) ==
    IF ~IsFinite(x) THEN NaN
    ELSE SinReduced(ReducePi(TimesReduced(m, x) + Pi \div 2))

\* ------------------------------------------------------------------------
\* Objectives
\* ------------------------------------------------------------------------
KeyParabola == "Parabola (x-2)^2 + 1"
KeyMultiModal == "Multi-modal: (x-2)^2 + sin(5x)"
KeyCustom == "Funcion personalizada"

\* the keys of FUNCTIONS the model draws from
FunctionKeys == {KeyParabola, KeyMultiModal, KeyCustom}

\* (x - 2) * (x - 2)
SquareAbout2(x) == Mul(Sub(x, Num(2)), Sub(x, Num(2)))

\* FUNCTIONS[key](x) for a catalog key
FUNCTIONS(key, x) ==
    IF key = KeyParabola THEN Add(SquareAbout2(x), Num(1))
    ELSE Add(SquareAbout2(x), SinOf(5, x))

\* DERIVATIVES[key](x) for a catalog key
DERIVATIVES(key, x) ==
    IF key = KeyParabola THEN Mul(Num(2), Sub(x, Num(2)))
    ELSE Add(Mul(Num(2), Sub(x, Num(2))), Mul(Num(5), CosOf(5, x)))

\* SECOND_DERIVATIVES[key](x) for a catalog key
SECOND_DERIVATIVES(key, x) ==
    IF key = KeyParabola THEN Num(2)
    ELSE Sub(Num(2), Mul(Num(25), SinOf(5, x)))

\* ------------------------------------------------------------------------
\* parseCustomFunction.  A formula is the sequence of its characters.
\* ------------------------------------------------------------------------
Digits == {"0", "1", "2", "3", "4", "5", "6", "7", "8", "9"}
Whitespace == {" "}

\* the characters of the class [x0-9+\-*/().\s,^sin|cos|tan|log|exp|sqrt|abs|pow|min|max]
allowedChars ==
    {"x"} \cup Digits \cup {"+", "-", "*", "/", "(", ")", "."} \cup Whitespace
    \cup {",", "^"}
    \cup {"s", "i", "n", "|", "c", "o", "t", "a", "l", "g", "e", "p", "q", "r", "b",
          "w", "m"}

\* String.prototype.trim
RECURSIVE TrimLeft(_)
TrimLeft(s) ==
    IF s # <<>> /\ Head(s) \in Whitespace THEN TrimLeft(Tail(s)) ELSE s

RECURSIVE TrimRight(_)
TrimRight(s) ==
    IF s # <<>> /\ s[Len(s)] \in Whitespace
    THEN TrimRight(SubSeq(s, 1, Len(s) - 1))
    ELSE s

Trim(s) == TrimRight(TrimLeft(s))

\* allowedChars.test(funcString): one or more characters, all of the class
AllowedTest(s) == Len(s) >= 1 /\ \A i \in 1..Len(s) : s[i] \in allowedChars

IsPrefix(p, s) == Len(p) <= Len(s) /\ SubSeq(s, 1, Len(p)) = p

\* s.replace(/pat/g, rep)
RECURSIVE ReplaceAll(_, _, _)
ReplaceAll(s, pat, rep) ==
    IF s = <<>> THEN <<>>
    ELSE IF IsPrefix(pat, s)
    THEN rep \o ReplaceAll(SubSeq(s, Len(pat) + 1, Len(s)), pat, rep)
    ELSE <<Head(s)>> \o ReplaceAll(Tail(s), pat, rep)

MathDot == <<"M", "a", "t", "h", ".">>

FunctionNames ==
    << <<"s", "i", "n">>, <<"c", "o", "s">>, <<"t", "a", "n">>, <<"l", "o", "g">>,
       <<"e", "x", "p">>, <<"s", "q", "r", "t">>, <<"a", "b", "s">>,
       <<"p", "o", "w">>, <<"m", "i", "n">>, <<"m", "a", "x">> >>

\* the chain of .replace(/name\(/g, 'Math.name(') calls, from the i-th name on
RECURSIVE ReplaceNames(_, _)
ReplaceNames(s, i) ==
    IF i > Len(FunctionNames) THEN s
    ELSE ReplaceNames(
             ReplaceAll(s, FunctionNames[i] \o <<"(">>,
                        MathDot \o FunctionNames[i] \o <<"(">>),
             i + 1)

\* processedFunc
Processed(s) == ReplaceNames(ReplaceAll(s, <<"^">>, <<"*", "*">>), 1)

\* the formulas of the model
FormulaDefault == <<"x", "^", "2", " ", "-", " ", "4", "*", "x", " ", "+", " ", "3">>
FormulaConst == <<"3">>
FormulaLinear == <<" ", "x">>
FormulaBad == <<"b", "a", "d", "$", "c", "h", "a", "r", "s">>
FormulaEmpty == <<>>
FormulaReciprocal == <<"1", "/", "x">>
FormulaZeroOver == <<"0", "/", "x">>

\* new Function('x', `return ${body}`), for the bodies of the model's formulas:
\* the callable, as the coefficients <<c0, c1, c2>> of the polynomial
\* c0 + c1 x + c2 x^2 it computes, the numerator <<c>> of the quotient c / x, the
\* Math function it applies to x, or x | 1 (bitwise or); "unbound" is a body
\* that compiles and reads a variable that does not exist; every other body
\* is a SyntaxError
Compiled(body) ==
    IF body = <<"x", "*", "*", "2", " ", "-", " ", "4", "*", "x", " ", "+", " ", "3">>
    THEN [kind |-> "poly", coef |-> <<3, -4, 1>>]
    ELSE IF body = <<"3">> THEN [kind |-> "poly", coef |-> <<3, 0, 0>>]
    ELSE IF body = <<"x">> THEN [kind |-> "poly", coef |-> <<0, 1, 0>>]
    ELSE IF body = <<"1", "/", "x">> THEN [kind |-> "quotient", coef |-> <<1>>]
    ELSE IF body = <<"0", "/", "x">> THEN [kind |-> "quotient", coef |-> <<0>>]
    ELSE IF body = <<"x", "|", "1">> THEN [kind |-> "bitor", coef |-> <<1>>]
    ELSE IF body = MathDot \o <<"s", "i", "n", "(", "x", ")">>
    THEN [kind |-> "Math.sin", coef |-> <<>>]
    ELSE IF body = MathDot \o <<"a", "b", "s", "(", "x", ")">>
    THEN [kind |-> "Math.abs", coef |-> <<>>]
    ELSE IF body \in {<<"s">>, <<"a">>, <<"m", "a", "x">>, <<"s", "i", "n">>}
    THEN [kind |-> "unbound", coef |-> <<>>]
    ELSE [kind |-> "SyntaxError", coef |-> <<>>]

\* func(1) throws: a ReferenceError for a variable that does not exist
SmokeTestThrows(func) == func.kind = "unbound"

\* parseCustomFunction(funcString): [ok |-> TRUE, func |-> the callable], or
\* [ok |-> FALSE] when it throws "Error en la funcion: ..."
parseCustomFunction(funcString) ==
    LET trimmed == Trim(funcString)
        func == Compiled(Processed(trimmed))
    IN  IF ~AllowedTest(trimmed) THEN [ok |-> FALSE]
        ELSE IF func.kind = "SyntaxError" THEN [ok |-> FALSE]
        ELSE IF SmokeTestThrows(func) THEN [ok |-> FALSE]
        ELSE [ok |-> TRUE, func |-> func]

\* (x) => x * x, the default function of the useMemo of f
FallbackFunction == [kind |-> "poly", coef |-> <<0, 0, 1>>]

\* the component's f: useMemo(..., [fnKey, customFunction])
MemoF(fnKey, customFunction) ==
    IF fnKey = KeyCustom
    THEN IF parseCustomFunction(customFunction).ok
         THEN parseCustomFunction(customFunction).func
         ELSE FallbackFunction
    ELSE [kind |-> "FUNCTIONS", key |-> fnKey]

\* the component's df: useMemo(..., [fnKey, f])
MemoDf(fnKey, f) ==
    IF fnKey = KeyCustom
    THEN [kind |-> "central1", of |-> f]
    ELSE [kind |-> "DERIVATIVES", key |-> fnKey]

\* the component's d2f: useMemo(..., [fnKey, f])
MemoD2f(fnKey, f) ==
    IF fnKey = KeyCustom
    THEN [kind |-> "central2", of |-> f]
    ELSE [kind |-> "SECOND_DERIVATIVES", key |-> fnKey]

\* the value of a compiled body: 3, x, x * x or x ** 2 - 4 * x + 3, computed term
\* by term as the body does (x ** 2 is x * x)
Poly(coef, x) ==
    IF coef[3] = 0 /\ coef[2] = 0 THEN Num(coef[1])
    ELSE IF coef[3] = 0 THEN Add(Mul(Num(coef[2]), x), Num(coef[1]))
    ELSE IF coef[2] = 0 /\ coef[1] = 0 THEN Mul(x, x)
    ELSE Add(Add(Mul(Num(coef[3]), Mul(x, x)), Mul(Num(coef[2]), x)), Num(coef[1]))

\* a faulty difference quotient that loses the linear term of f, for C12
CentralFirstNoLinear(coef, x) == Mul(Num(2 * coef[3]), x)

\* (f(x + h) - f(x - h)) / (2 * h), h = 1e-6, for a polynomial f of degree <= 2:
\* the difference quotient equals c1 + 2 c2 x; the rounding error of its
\* evaluation in doubles (about 1e-10) is below the resolution of the model
CentralFirst(coef, x) == Add(Mul(Num(2 * coef[3]), x), Num(coef[2]))

\* (f(x + h) - 2 * f(x) + f(x - h)) / (h * h): 2 c2 for such an f.  In doubles
\* the quotient is 2 c2 to within 3e-3 when c2 # 0, and for c2 = 0 it is exactly
\* 0 wherever x + h and x - h round symmetrically about x, as they do at the
\* points 0, 3 and 4 from which the model starts newtonMethod
CentralSecond(coef, x) == IF IsNaN(x) THEN NaN ELSE Num(2 * coef[3])

\* x | 1: x is truncated to an integer (NaN and the infinities to 0), whose
\* last bit is set
BitOr1(x) ==
    LET n == IF IsFinite(x) THEN Sign(x) * (Abs(x) \div SCALE) ELSE 0
    IN  Num(IF n % 2 = 0 THEN n + 1 ELSE n)

\* the call fn(x) of a callable
Call(fn, x) ==
    CASE fn.kind = "FUNCTIONS" -> FUNCTIONS(fn.key, x)
      [] fn.kind = "DERIVATIVES" -> DERIVATIVES(fn.key, x)
      [] fn.kind = "SECOND_DERIVATIVES" -> SECOND_DERIVATIVES(fn.key, x)
      [] fn.kind = "poly" -> Poly(fn.coef, x)
      [] fn.kind = "quotient" -> Div(Num(fn.coef[1]), x)
      [] fn.kind = "bitor" -> BitOr1(x)
      [] fn.kind = "Math.sin" -> SinOf(1, x)
      [] fn.kind = "Math.abs" -> MathAbs(x)
      [] fn.kind = "central1" -> CentralFirst(fn.of.coef, x)
      [] fn.kind = "central2" -> CentralSecond(fn.of.coef, x)

\* ------------------------------------------------------------------------
\* State
\* ------------------------------------------------------------------------
VARIABLES
    method,   \* selectedMethod of OptimizationMethodSelector: the mounted optimizer
    st,       \* the useState fields of the mounted optimizer, result included
    alert,    \* the alert() raised by the last step, "none" when it raised none
    pc,       \* "idle", or the position of the running search function
    loc,      \* the parameters and locals of the running search function, with
              \* its arguments (args) and the alerts it has raised (alerts)
    ret,      \* what the last direct call of a search function returned
    memo      \* what one earlier direct call returned, as its caller kept it

vars == <<method, st, alert, pc, loc, ret, memo>>

Null == [null |-> TRUE]
NoCall == [alg |-> "none"]

\* ------------------------------------------------------------------------
\* goldenSectionSearch
\* ------------------------------------------------------------------------
\* Math.sqrt(5)
Sqrt5 == 2 * SCALE + 15842253

\* a faulty phi, 1 + sqrt(5) / 2, for C10
phiMisplaced == Add(Num(1), Half(Sqrt5))

phi == Half(Add(Num(1), Sqrt5))

\* a faulty loop condition, one pass too many, for C2
LoopCondInclusive(iter, maxIter) == iter <= maxIter

\* the loop condition iter < maxIter of the three tolerance-driven searches
LoopCond(iter, maxIter) == iter < maxIter

\* history.push(rec)
Push(history, rec) == Append(history, rec)

\* a faulty index, 0-based, for C1
IterIndexZeroBased(iter) == iter

\* the 1-based index a pass records
IterIndex(iter) == iter + 1

\* (a + b) / 2
Midpoint(a, b) == Half(Add(a, b))

\* a faulty entry whose history outlives the call (an array kept outside the
\* function and never cleared), for C9
GoldenEntryStale(caller, f, a, b, tol, maxIter) ==
    LET c == Sub(b, Div(Sub(b, a), phi))
        d == Add(a, Div(Sub(b, a), phi))
    IN  [alg |-> "golden", caller |-> caller, args |-> <<f, a, b, tol, maxIter>>,
         f |-> f, a |-> a, b |-> b, tol |-> tol, maxIter |-> maxIter,
         c |-> c, d |-> d, fc |-> Call(f, c), fd |-> Call(f, d),
         evals |-> <<c, d>>,
         history |-> IF ret = Null THEN <<>> ELSE ret.res.history,
         iter |-> 0, alerts |-> <<>>]

\* lines 57-62: the locals before the loop
GoldenEntry(caller, f, a, b, tol, maxIter) ==
    LET c == Sub(b, Div(Sub(b, a), phi))
        d == Add(a, Div(Sub(b, a), phi))
    IN  [alg |-> "golden", caller |-> caller, args |-> <<f, a, b, tol, maxIter>>,
         f |-> f, a |-> a, b |-> b, tol |-> tol, maxIter |-> maxIter,
         c |-> c, d |-> d, fc |-> Call(f, c), fd |-> Call(f, d),
         evals |-> <<c, d>>,
         history |-> <<>>, iter |-> 0, alerts |-> <<>>]

\* line 65: the record of a pass
GoldenRecord(l) ==
    [iter |-> IterIndex(l.iter), a |-> l.a, b |-> l.b, c |-> l.c, d |-> l.d,
     fc |-> l.fc, fd |-> l.fd, midpoint |-> Midpoint(l.a, l.b)]

\* line 66: Math.abs(b - a) < tol
GoldenConverged(l) == Lt(MathAbs(Sub(l.b, l.a)), l.tol)

\* a faulty comparison, fc <= fd, for C3
GoldenLessOrEqual(fc, fd) == Lt(fc, fd) \/ fc = fd

\* line 67: fc < fd
GoldenLess(fc, fd) == Lt(fc, fd)

\* a faulty update that puts the new interior point at the midpoint, for C21
GoldenShrinkToMidpoint(l) ==
    IF GoldenLess(l.fc, l.fd)
    THEN LET b == l.d
             c == Midpoint(l.a, b)
         IN  [l EXCEPT !.b = b, !.d = l.c, !.fd = l.fc, !.c = c, !.fc = Call(l.f, c),
                       !.evals = Append(l.evals, c)]
    ELSE LET a == l.c
             d == Midpoint(a, l.b)
         IN  [l EXCEPT !.a = a, !.c = l.d, !.fc = l.fd, !.d = d, !.fd = Call(l.f, d),
                       !.evals = Append(l.evals, d)]

\* a faulty update that moves the point over but not its stored value, for C20
GoldenShrinkStaleValue(l) ==
    IF GoldenLess(l.fc, l.fd)
    THEN LET b == l.d
             c == Sub(b, Div(Sub(b, l.a), phi))
         IN  [l EXCEPT !.b = b, !.d = l.c, !.c = c, !.fc = Call(l.f, c),
                       !.evals = Append(l.evals, c)]
    ELSE LET a == l.c
             d == Add(a, Div(Sub(l.b, a), phi))
         IN  [l EXCEPT !.a = a, !.c = l.d, !.d = d, !.fd = Call(l.f, d),
                       !.evals = Append(l.evals, d)]

\* lines 67-79: the new bracket and interior points; evals lists the points at
\* which the objective has been called
GoldenShrink(l) ==
    IF GoldenLess(l.fc, l.fd)
    THEN LET b == l.d
             c == Sub(b, Div(Sub(b, l.a), phi))
         IN  [l EXCEPT !.b = b, !.d = l.c, !.fd = l.fc, !.c = c, !.fc = Call(l.f, c),
                       !.evals = Append(l.evals, c)]
    ELSE LET a == l.c
             d == Add(a, Div(Sub(l.b, a), phi))
         IN  [l EXCEPT !.a = a, !.c = l.d, !.fc = l.fd, !.d = d, !.fd = Call(l.f, d),
                       !.evals = Append(l.evals, d)]

\* a faulty Result, the better of the two ends of the bracket, for C4
BracketResultBestEnd(l) ==
    LET x == IF Lt(Call(l.f, l.a), Call(l.f, l.b)) THEN l.a ELSE l.b
    IN  [xOpt |-> x, fOpt |-> Call(l.f, x), history |-> l.history]

\* lines 82-84: the Result of a bracketing search
BracketResult(l) ==
    [xOpt |-> Midpoint(l.a, l.b), fOpt |-> Call(l.f, Midpoint(l.a, l.b)),
     history |-> l.history]

\* one pass of the loop of goldenSectionSearch
GoldenPass ==
    /\ pc = "loop" /\ loc.alg = "golden"
    /\ LoopCond(loc.iter, loc.maxIter)
    /\ LET pushed == [loc EXCEPT !.history = Push(loc.history, GoldenRecord(loc))]
       IN  IF GoldenConverged(loc)
           THEN /\ loc' = pushed
                /\ pc' = "break"
           ELSE /\ loc' = [GoldenShrink(pushed) EXCEPT !.iter = loc.iter + 1]
                /\ pc' = "loop"
    /\ alert' = "none"
    /\ UNCHANGED <<method, st, ret, memo>>

\* the loop of the running search function is over
LoopOver ==
    \/ pc = "break"
    \/ pc = "loop" /\ loc.alg \in {"golden", "bisection", "newton"}
                   /\ ~LoopCond(loc.iter, loc.maxIter)

\* the return of a search function: to run, which calls setResult(res), or to
\* a direct caller; keep says whether the direct caller remembers the Result
Return(res, keep) ==
    /\ pc' = "idle"
    /\ loc' = NoCall
    /\ alert' = "none"
    /\ IF loc.caller = "run"
       THEN /\ st' = [st EXCEPT !.result = res]
            /\ UNCHANGED <<ret, memo>>
       ELSE /\ ret' = [args |-> loc.args, alg |-> loc.alg, res |-> res,
                        alerts |-> loc.alerts, kept |-> keep]
            /\ memo' = IF keep THEN ret' ELSE memo
            /\ st' = st
    /\ UNCHANGED method

GoldenReturn(keep) ==
    /\ loc.alg = "golden" /\ LoopOver
    /\ Return(BracketResult(loc), keep)

\* a faulty sequence that starts 0, 1, for C13
RECURSIVE FibSequenceFromZero(_)
FibSequenceFromZero(n) ==
    IF n < 2 THEN [i \in 0..1 |-> i]
    ELSE LET prev == FibSequenceFromZero(n - 1)
         IN  [i \in 0..n |-> IF i < n THEN prev[i] ELSE prev[n - 1] + prev[n - 2]]

\* ------------------------------------------------------------------------
\* fibonacciSearch
\* ------------------------------------------------------------------------
\* lines 53-56: the array fib, indexed from 0
RECURSIVE FibSequence(_)
FibSequence(n) ==
    IF n < 2 THEN [i \in 0..1 |-> 1]
    ELSE LET prev == FibSequence(n - 1)
         IN  [i \in 0..n |-> IF i < n THEN prev[i] ELSE prev[n - 1] + prev[n - 2]]

\* fib[i] in an arithmetic expression: undefined, hence NaN, outside the array
FibAt(fib, i) == IF i \in DOMAIN fib THEN fib[i] ELSE NaN

\* a faulty point formula that measures from the right end, for C19
FibPointFromRight(fib, i, k, a, b) ==
    Sub(b, Mul(Div(FibAt(fib, i), FibAt(fib, k)), Sub(b, a)))

\* a + (fib[i] / fib[k]) * (b - a)
FibPoint(fib, i, k, a, b) ==
    Add(a, Mul(Div(FibAt(fib, i), FibAt(fib, k)), Sub(b, a)))

\* a faulty loop condition, iter < n, for C18
FibLoopCondThroughN(iter, n) == iter < n

\* the loop condition iter < n - 1
FibLoopCond(iter, n) == iter < n - 1

\* a faulty entry with the two interior points exchanged, for C25
FibEntrySwapped(caller, f, a, b, n) ==
    LET fib == FibSequence(n)
        x1 == FibPoint(fib, n - 1, n, a, b)
        x2 == FibPoint(fib, n - 2, n, a, b)
    IN  [alg |-> "fibonacci", caller |-> caller, args |-> <<f, a, b, n>>,
         f |-> f, a |-> a, b |-> b, n |-> n, fib |-> fib,
         x1 |-> x1, x2 |-> x2, f1 |-> Call(f, x1), f2 |-> Call(f, x2),
         history |-> <<>>, k |-> n, iter |-> 0, alerts |-> <<>>]

\* lines 52-64: the locals before the loop
FibEntry(caller, f, a, b, n) ==
    LET fib == FibSequence(n)
        x1 == FibPoint(fib, n - 2, n, a, b)
        x2 == FibPoint(fib, n - 1, n, a, b)
    IN  [alg |-> "fibonacci", caller |-> caller, args |-> <<f, a, b, n>>,
         f |-> f, a |-> a, b |-> b, n |-> n, fib |-> fib,
         x1 |-> x1, x2 |-> x2, f1 |-> Call(f, x1), f2 |-> Call(f, x2),
         history |-> <<>>, k |-> n, iter |-> 0, alerts |-> <<>>]

\* lines 67-77: the record of a pass
FibRecord(l) ==
    [iter |-> IterIndex(l.iter), a |-> l.a, b |-> l.b, x1 |-> l.x1, x2 |-> l.x2,
     f1 |-> l.f1, f2 |-> l.f2, fib_k |-> FibAt(l.fib, l.k),
     midpoint |-> Midpoint(l.a, l.b)]

\* line 79: f1 < f2
FibLess(f1, f2) == Lt(f1, f2)

\* lines 79-93: the new bracket, index and interior points
FibShrink(l) ==
    IF FibLess(l.f1, l.f2)
    THEN LET b == l.x2
             k == l.k - 1
             x1 == FibPoint(l.fib, k - 2, k, l.a, b)
         IN  [l EXCEPT !.b = b, !.x2 = l.x1, !.f2 = l.f1, !.k = k,
                       !.x1 = x1, !.f1 = Call(l.f, x1)]
    ELSE LET a == l.x1
             k == l.k - 1
             x2 == FibPoint(l.fib, k - 1, k, a, l.b)
         IN  [l EXCEPT !.a = a, !.x1 = l.x2, !.f1 = l.f2, !.k = k,
                       !.x2 = x2, !.f2 = Call(l.f, x2)]

\* lines 74 and 79-93: the indices at which a pass reads fib
FibReads(l) ==
    IF FibLess(l.f1, l.f2) THEN {l.k, l.k - 3, l.k - 1} ELSE {l.k, l.k - 2, l.k - 1}

\* one pass of the loop of fibonacciSearch
FibPass ==
    /\ pc = "loop" /\ loc.alg = "fibonacci"
    /\ FibLoopCond(loc.iter, loc.n)
    /\ LET pushed == [loc EXCEPT !.history = Push(loc.history, FibRecord(loc))]
       IN  loc' = [FibShrink(pushed) EXCEPT !.iter = loc.iter + 1]
    /\ pc' = "loop"
    /\ alert' = "none"
    /\ UNCHANGED <<method, st, ret, memo>>

FibReturn(keep) ==
    /\ pc = "loop" /\ loc.alg = "fibonacci"
    /\ ~FibLoopCond(loc.iter, loc.n)
    /\ Return(BracketResult(loc), keep)

\* ------------------------------------------------------------------------
\* bisectionMethod
\* ------------------------------------------------------------------------
BisectionEntry(caller, f, df, a, b, tol, maxIter) ==
    [alg |-> "bisection", caller |-> caller, args |-> <<f, df, a, b, tol, maxIter>>,
     f |-> f, df |-> df, a |-> a, b |-> b, tol |-> tol, maxIter |-> maxIter,
     history |-> <<>>, iter |-> 0, alerts |-> <<>>]

\* lines 459-471: the record of a pass
BisectionRecord(l) ==
    LET c == Midpoint(l.a, l.b)
    IN  [iter |-> IterIndex(l.iter), a |-> l.a, b |-> l.b, c |-> c,
         fc |-> Call(l.f, c), dfc |-> Call(l.df, c),
         error |-> MathAbs(Sub(l.b, l.a))]

\* a faulty test that ignores the derivative, for C16
BisectionConvergedWidthOnly(l, dfc) == Lt(MathAbs(Sub(l.b, l.a)), l.tol)

\* line 473: Math.abs(dfc) < tol || Math.abs(b - a) < tol
BisectionConverged(l, dfc) ==
    Lt(MathAbs(dfc), l.tol) \/ Lt(MathAbs(Sub(l.b, l.a)), l.tol)

\* lines 475-479: the half that is kept
BisectionShrink(l, c, dfc) ==
    IF Gt(dfc, 0) THEN [l EXCEPT !.b = c] ELSE [l EXCEPT !.a = c]

\* one pass of the loop of bisectionMethod
BisectionPass ==
    /\ pc = "loop" /\ loc.alg = "bisection"
    /\ LoopCond(loc.iter, loc.maxIter)
    /\ LET rec == BisectionRecord(loc)
           pushed == [loc EXCEPT !.history = Push(loc.history, rec)]
       IN  IF BisectionConverged(loc, rec.dfc)
           THEN /\ loc' = pushed
                /\ pc' = "break"
           ELSE /\ loc' = [BisectionShrink(pushed, rec.c, rec.dfc)
                              EXCEPT !.iter = loc.iter + 1]
                /\ pc' = "loop"
    /\ alert' = "none"
    /\ UNCHANGED <<method, st, ret, memo>>

BisectionReturn(keep) ==
    /\ loc.alg = "bisection" /\ LoopOver
    /\ Return(BracketResult(loc), keep)

\* ------------------------------------------------------------------------
\* newtonMethod
\* ------------------------------------------------------------------------
\* 1e-12 rounded up to the resolution of the model, the least positive number:
\* Math.abs(d2fx) < 1e-12 holds of a number of the model exactly when it is 0
StallThreshold == 1

NewtonEntry(caller, f, df, d2f, x0, tol, maxIter) ==
    [alg |-> "newton", caller |-> caller, args |-> <<f, df, d2f, x0, tol, maxIter>>,
     f |-> f, df |-> df, d2f |-> d2f, x |-> x0, tol |-> tol, maxIter |-> maxIter,
     history |-> <<>>, iter |-> 0, alerts |-> <<>>]

\* a faulty record whose step is d2fx / dfx, for C22
NewtonRecordStepInverted(l) ==
    LET dfx == Call(l.df, l.x)
        d2fx == Call(l.d2f, l.x)
    IN  [iter |-> IterIndex(l.iter), x |-> l.x, fx |-> Call(l.f, l.x),
         dfx |-> dfx, d2fx |-> d2fx, step |-> Div(d2fx, dfx)]

\* lines 72-83: the record of a pass
NewtonRecord(l) ==
    LET dfx == Call(l.df, l.x)
        d2fx == Call(l.d2f, l.x)
    IN  [iter |-> IterIndex(l.iter), x |-> l.x, fx |-> Call(l.f, l.x),
         dfx |-> dfx, d2fx |-> d2fx, step |-> Div(dfx, d2fx)]

\* a faulty test that does not take a derivative of exactly 0 as converged,
\* for C28
NewtonConvergedNonZero(l, dfx) == Lt(MathAbs(dfx), l.tol) /\ dfx # 0

\* line 85: Math.abs(dfx) < tol
NewtonConverged(l, dfx) == Lt(MathAbs(dfx), l.tol)

\* a faulty stall test that never fires, for C5
NewtonNeverStalled(d2fx) == FALSE

\* line 87: Math.abs(d2fx) < 1e-12
NewtonStalled(d2fx) == Lt(MathAbs(d2fx), StallThreshold)

\* a faulty update that takes half the step, for C11
NewtonUpdateHalfStep(l, dfx, d2fx) == [l EXCEPT !.x = Sub(l.x, Half(Div(dfx, d2fx)))]

\* lines 92-93: x = x - step
NewtonUpdate(l, dfx, d2fx) == [l EXCEPT !.x = Sub(l.x, Div(dfx, d2fx))]

\* one pass of the loop of newtonMethod
NewtonPass ==
    /\ pc = "loop" /\ loc.alg = "newton"
    /\ LoopCond(loc.iter, loc.maxIter)
    /\ LET rec == NewtonRecord(loc)
           pushed == [loc EXCEPT !.history = Push(loc.history, rec)]
       IN  IF NewtonConverged(loc, rec.dfx)
           THEN /\ loc' = pushed
                /\ pc' = "break"
                /\ alert' = "none"
           ELSE IF NewtonStalled(rec.d2fx)
           THEN /\ loc' = [pushed EXCEPT !.alerts = Append(loc.alerts, "stall")]
                /\ pc' = "break"
                /\ alert' = "stall"
           ELSE /\ loc' = [NewtonUpdate(pushed, rec.dfx, rec.d2fx)
                              EXCEPT !.iter = loc.iter + 1]
                /\ pc' = "loop"
                /\ alert' = "none"
    /\ UNCHANGED <<method, st, ret, memo>>

\* a faulty Result that returns the iterate of the last record, for C26
NewtonResultOfLastRecord(l) ==
    LET x == IF l.history = <<>> THEN l.x ELSE l.history[Len(l.history)].x
    IN  [xOpt |-> x, fOpt |-> Call(l.f, x), history |-> l.history]

\* lines 96-97: the Result of newtonMethod
NewtonResult(l) == [xOpt |-> l.x, fOpt |-> Call(l.f, l.x), history |-> l.history]

NewtonReturn(keep) ==
    /\ loc.alg = "newton" /\ LoopOver
    /\ Return(NewtonResult(loc), keep)

\* ------------------------------------------------------------------------
\* Direct calls of the search functions
\* ------------------------------------------------------------------------
MaxPasses == 2
MaxIterValues == 0..MaxPasses \cup {60}

MaxN == 4
NValues == 0..MaxN \cup {20}

\* the least number of the model that is >= num / den: y < num / den holds of
\* a number y of the model exactly when y < Bound(num, den)
Bound(num, den) == (num * SCALE + den - 1) \div den

\* 1e-3, 1e-6 and a coarse tolerance
Tol3 == Bound(1, 1000)
Tol6 == Bound(1, 1000000)
TolCoarse == Num(3)

CatalogKeys == {KeyParabola, KeyMultiModal}
Formulas == {FormulaDefault, FormulaConst, FormulaLinear}

\* an objective with the derivatives the components pair it with
Triple(fnKey, customFunction) ==
    [f |-> MemoF(fnKey, customFunction),
     df |-> MemoDf(fnKey, MemoF(fnKey, customFunction)),
     d2f |-> MemoD2f(fnKey, MemoF(fnKey, customFunction))]

Triples ==
    {Triple(key, FormulaDefault) : key \in CatalogKeys}
    \cup {Triple(KeyCustom, s) : s \in Formulas}

Brackets == {<<Num(-2), Num(5)>>, <<Num(-1), Num(5)>>, <<Num(0), Num(4)>>,
             <<Num(4), Num(0)>>}

StartPoints == {Num(0), Num(3), Num(4)}

\* a bracket on which the derivative of the Multi-modal objective goes from
\* positive to negative: the bracket of a local maximum
MaximumBracket == <<Num(0), Num(1)>>

\* a call with a tolerance below the distance from the minimizer at which the
\* computed values of the parabola stop changing (the square root of the
\* resolution of the numbers: 2^-13 in the model, about 1e-8 for doubles)
GoldenFine == <<Triple(KeyParabola, FormulaDefault).f, Num(-2), Num(5), Tol6, 60>>

\* the arguments of the direct calls of the four search functions
GoldenArgs ==
    {<<t.f, br[1], br[2], tol, maxIter>> :
        t \in Triples, br \in Brackets, tol \in {Tol3, TolCoarse},
        maxIter \in MaxIterValues}
    \cup {GoldenFine}

FibArgs == {<<t.f, br[1], br[2], n>> : t \in Triples, br \in Brackets, n \in NValues}

BisectionArgs ==
    {<<t.f, t.df, br[1], br[2], tol, maxIter>> :
        t \in Triples, br \in Brackets \cup {MaximumBracket},
        tol \in {Tol6, TolCoarse}, maxIter \in MaxIterValues}

NewtonArgs ==
    {<<t.f, t.df, t.d2f, x0, tol, maxIter>> :
        t \in Triples, x0 \in StartPoints, tol \in {Tol6, TolCoarse},
        maxIter \in MaxIterValues}

\* a smaller set of arguments, for the runs that call again and again
FewTriples == {Triple(KeyParabola, FormulaDefault), Triple(KeyCustom, FormulaLinear)}
FewGoldenArgs ==
    {<<t.f, Num(-2), Num(5), TolCoarse, maxIter>> :
        t \in FewTriples, maxIter \in 1..MaxPasses + 1}
FewFibArgs == {<<t.f, Num(-2), Num(5), n>> : t \in FewTriples, n \in 2..MaxN}
FewBisectionArgs ==
    {<<t.f, t.df, Num(-2), Num(5), TolCoarse, maxIter>> :
        t \in FewTriples, maxIter \in 1..MaxPasses}
FewNewtonArgs ==
    {<<t.f, t.df, t.d2f, Num(0), Tol6, maxIter>> :
        t \in FewTriples, maxIter \in 1..MaxPasses}

\* a direct call: the first one, or any one when again holds
CallGuard(again) == pc = "idle" /\ (again \/ ret = Null)

Called ==
    /\ pc' = "loop"
    /\ alert' = "none"
    /\ ret' = Null
    /\ UNCHANGED <<method, st, memo>>

CallGolden(Args, again) ==
    /\ CallGuard(again)
    /\ \E g \in Args : loc' = GoldenEntry("direct", g[1], g[2], g[3], g[4], g[5])
    /\ Called

CallFibonacci(Args, again) ==
    /\ CallGuard(again)
    /\ \E g \in Args : loc' = FibEntry("direct", g[1], g[2], g[3], g[4])
    /\ Called

CallBisection(Args, again) ==
    /\ CallGuard(again)
    /\ \E g \in Args :
          loc' = BisectionEntry("direct", g[1], g[2], g[3], g[4], g[5], g[6])
    /\ Called

CallNewton(Args, again) ==
    /\ CallGuard(again)
    /\ \E g \in Args :
          loc' = NewtonEntry("direct", g[1], g[2], g[3], g[4], g[5], g[6])
    /\ Called

\* ------------------------------------------------------------------------
\* The optimizer components
\* ------------------------------------------------------------------------
Methods == {"Seccion Aurea", "Fibonacci", "Biseccion", "Newton unidimensional"}

\* the useState initial values of a component.  A numeric field holds the
\* Number() of the text of its input: NaN for a text that is no number
InitialState(m) ==
    CASE m = "Seccion Aurea" ->
           [fnKey |-> KeyMultiModal, customFunction |-> FormulaDefault,
            a |-> Num(-2), b |-> Num(5), tol |-> Tol3, maxIter |-> 60,
            result |-> Null]
      [] m = "Fibonacci" ->
           [fnKey |-> KeyMultiModal, customFunction |-> FormulaDefault,
            a |-> Num(-2), b |-> Num(5), n |-> 20, result |-> Null]
      [] m = "Biseccion" ->
           [fnKey |-> KeyMultiModal, customFunction |-> FormulaDefault,
            a |-> Num(-2), b |-> Num(5), tol |-> Tol6, maxIter |-> 60,
            result |-> Null]
      [] m = "Newton unidimensional" ->
           [fnKey |-> KeyMultiModal, customFunction |-> FormulaDefault,
            x0 |-> Num(0), tol |-> Tol6, maxIter |-> 60, result |-> Null]

\* the values the user gives to a field
FieldValues(field) ==
    CASE field = "fnKey" -> FunctionKeys
      [] field = "customFunction" -> {FormulaLinear, FormulaConst, FormulaBad}
      [] field = "a" -> {Num(-2), Num(5), NaN}
      [] field = "b" -> {Num(5), Num(-2)}
      [] field = "x0" -> {Num(0), Num(3)}
      [] field = "tol" -> {Tol6, TolCoarse}
      [] field = "maxIter" -> 0..MaxPasses
      [] field = "n" -> 1..MaxN

\* setSelectedMethod: the selected component is mounted in its initial state
Select ==
    /\ pc = "idle"
    /\ \E m \in Methods :
          /\ method' = m
          /\ st' = InitialState(m)
    /\ alert' = "none"
    /\ UNCHANGED <<pc, loc, ret, memo>>

\* setFnKey, setCustomFunction, setA, setB, setX0, setTol, setMaxIter, setN
SetField(field) ==
    /\ pc = "idle"
    /\ field \in DOMAIN st
    /\ \E v \in FieldValues(field) : st' = [st EXCEPT ![field] = v]
    /\ alert' = "none"
    /\ UNCHANGED <<method, pc, loc, ret, memo>>

\* the custom objective is selected and parseCustomFunction throws
CustomRejected(s) == s.fnKey = KeyCustom /\ ~parseCustomFunction(s.customFunction).ok

\* a faulty bracket test, na >= nb, which lets NaN through, for C6
BracketRejectedGe(na, nb) == Lt(nb, na) \/ (na = nb /\ ~IsNaN(na))

\* !(na < nb)
BracketRejected(na, nb) == ~Lt(na, nb)

\* nn < 2
CountRejected(nn) == Lt(nn, 2)

\* a faulty sign test, dfA * dfB >= 0, for C7
SignRejectedAtZero(dfA, dfB) == Gt(Mul(dfA, dfB), 0) \/ Mul(dfA, dfB) = 0

\* dfA * dfB > 0
SignRejected(dfA, dfB) == Gt(Mul(dfA, dfB), 0)

\* the alert with which run returns early, "none" when it calls the search
GoldenCheck(s) ==
    IF BracketRejected(s.a, s.b) THEN "bracket"
    ELSE IF CustomRejected(s) THEN "custom"
    ELSE "none"

FibCheck(s) ==
    IF BracketRejected(s.a, s.b) THEN "bracket"
    ELSE IF CountRejected(s.n) THEN "count"
    ELSE IF CustomRejected(s) THEN "custom"
    ELSE "none"

BisectionCheck(s) ==
    LET df == MemoDf(s.fnKey, MemoF(s.fnKey, s.customFunction))
    IN  IF BracketRejected(s.a, s.b) THEN "bracket"
        ELSE IF SignRejected(Call(df, s.a), Call(df, s.b)) THEN "sign"
        ELSE IF CustomRejected(s) THEN "custom"
        ELSE "none"

NewtonCheck(s) == IF CustomRejected(s) THEN "custom" ELSE "none"

\* a faulty run that clears the Result when it rejects its inputs, for C27
RunClearsResult(check, entry) ==
    /\ pc = "idle"
    /\ IF check # "none"
       THEN /\ alert' = check
            /\ st' = [st EXCEPT !.result = Null]
            /\ UNCHANGED <<pc, loc>>
       ELSE /\ alert' = "none"
            /\ pc' = "loop"
            /\ loc' = entry
            /\ st' = st
    /\ UNCHANGED <<method, ret, memo>>

\* run of a component: an early return with an alert, or the entry into the
\* search function, whose Result the return hands to setResult
Run(check, entry) ==
    /\ pc = "idle"
    /\ IF check # "none"
       THEN /\ alert' = check
            /\ UNCHANGED <<pc, loc>>
       ELSE /\ alert' = "none"
            /\ pc' = "loop"
            /\ loc' = entry
    /\ UNCHANGED <<method, st, ret, memo>>

GoldenRun ==
    /\ method = "Seccion Aurea"
    /\ Run(GoldenCheck(st),
           GoldenEntry("run", MemoF(st.fnKey, st.customFunction),
                       st.a, st.b, st.tol, st.maxIter))

FibRun ==
    /\ method = "Fibonacci"
    /\ Run(FibCheck(st),
           FibEntry("run", MemoF(st.fnKey, st.customFunction), st.a, st.b, st.n))

BisectionRun ==
    /\ method = "Biseccion"
    /\ LET t == Triple(st.fnKey, st.customFunction)
       IN  Run(BisectionCheck(st),
               BisectionEntry("run", t.f, t.df, st.a, st.b, st.tol, st.maxIter))

NewtonRun ==
    /\ method = "Newton unidimensional"
    /\ LET t == Triple(st.fnKey, st.customFunction)
       IN  Run(NewtonCheck(st),
               NewtonEntry("run", t.f, t.df, t.d2f, st.x0, st.tol, st.maxIter))

Init ==
    /\ method = "Seccion Aurea"
    /\ st = InitialState("Seccion Aurea")
    /\ alert = "none"
    /\ pc = "idle"
    /\ loc = NoCall
    /\ ret = Null
    /\ memo = Null

Next ==
    \/ Select
    \/ \E field \in {"fnKey", "customFunction", "a", "b", "x0", "tol", "maxIter", "n"} :
          SetField(field)
    \/ GoldenRun
    \/ FibRun
    \/ BisectionRun
    \/ NewtonRun
    \/ GoldenPass
    \/ FibPass
    \/ BisectionPass
    \/ NewtonPass
    \/ GoldenReturn(FALSE)
    \/ FibReturn(FALSE)
    \/ BisectionReturn(FALSE)
    \/ NewtonReturn(FALSE)

Spec == Init /\ [][Next]_vars

InitSearch ==
    /\ method = "none"
    /\ st = Null
    /\ alert = "none"
    /\ pc = "idle"
    /\ loc = NoCall
    /\ ret = Null
    /\ memo = Null

\* one call of one search function, on arguments of the sets above
NextSearch ==
    \/ CallGolden(GoldenArgs, FALSE)
    \/ CallFibonacci(FibArgs, FALSE)
    \/ CallBisection(BisectionArgs, FALSE)
    \/ CallNewton(NewtonArgs, FALSE)
    \/ GoldenPass
    \/ FibPass
    \/ BisectionPass
    \/ NewtonPass
    \/ GoldenReturn(FALSE)
    \/ FibReturn(FALSE)
    \/ BisectionReturn(FALSE)
    \/ NewtonReturn(FALSE)

SpecSearch == InitSearch /\ [][NextSearch]_vars

\* calls one after the other; the caller may remember the Result of any of them
NextTwice ==
    \/ CallGolden(FewGoldenArgs, TRUE)
    \/ CallFibonacci(FewFibArgs, TRUE)
    \/ CallBisection(FewBisectionArgs, TRUE)
    \/ CallNewton(FewNewtonArgs, TRUE)
    \/ GoldenPass
    \/ FibPass
    \/ BisectionPass
    \/ NewtonPass
    \/ \E keep \in BOOLEAN : GoldenReturn(keep)
    \/ \E keep \in BOOLEAN : FibReturn(keep)
    \/ \E keep \in BOOLEAN : BisectionReturn(keep)
    \/ \E keep \in BOOLEAN : NewtonReturn(keep)

SpecTwice == InitSearch /\ [][NextTwice]_vars

\* ------------------------------------------------------------------------
\* Properties of the search functions and of the components
\* ------------------------------------------------------------------------
\* the kinds of step of a search function
CallStep == pc = "idle" /\ pc' = "loop"
PassStep == pc = "loop" /\ pc' \in {"loop", "break"}
ReturnStep == pc \in {"loop", "break"} /\ pc' = "idle"

Last(h) == h[Len(h)]

\* C1: in all four search functions the history starts empty, every executed
\* pass appends exactly one record and leaves the earlier records as they
\* were, the k-th record bears iter = k, and the Result returns that history.
C1_HistoryOneRecordPerPass ==
    [][/\ CallStep => loc'.history = <<>>
       /\ PassStep =>
             /\ Len(loc'.history) = Len(loc.history) + 1
             /\ SubSeq(loc'.history, 1, Len(loc.history)) = loc.history
             /\ \A k \in 1..Len(loc'.history) : loc'.history[k].iter = k
       /\ (ReturnStep /\ loc.caller = "direct") => ret'.res.history = loc.history
      ]_vars

\* a Result of fibonacciSearch with at least three records
C1_Witness ==
    /\ ret # Null
    /\ ret.alg = "fibonacci"
    /\ Len(ret.res.history) >= 3

\* the tolerance and the maxIter a tolerance-driven search was called with
TolOf(r) == IF r.alg = "golden" THEN r.args[4] ELSE r.args[5]
MaxIterOf(r) == IF r.alg = "golden" THEN r.args[5] ELSE r.args[6]

\* the pass that wrote rec met the convergence test or the stall test
PassStopped(alg, rec, tol) ==
    CASE alg = "golden" -> Lt(MathAbs(Sub(rec.b, rec.a)), tol)
      [] alg = "bisection" -> Lt(MathAbs(rec.dfc), tol) \/ Lt(rec.error, tol)
      [] alg = "newton" -> Lt(MathAbs(rec.dfx), tol) \/ rec.d2fx = 0

NoPassStopped(r) ==
    \A k \in 1..Len(r.res.history) : ~PassStopped(r.alg, r.res.history[k], TolOf(r))

ToleranceDriven == {"golden", "bisection", "newton"}

\* C2: goldenSectionSearch, bisectionMethod and newtonMethod never execute more
\* than maxIter passes; when no pass meets the convergence or stall test the
\* Result holds exactly maxIter records and no alert was raised.
C2_AtMostMaxIterPasses ==
    /\ (pc # "idle" /\ loc.alg \in ToleranceDriven) =>
          Len(loc.history) <= loc.maxIter
    /\ (ret # Null /\ ret.alg \in ToleranceDriven) =>
          /\ Len(ret.res.history) <= MaxIterOf(ret)
          /\ NoPassStopped(ret) =>
                /\ Len(ret.res.history) = MaxIterOf(ret)
                /\ ret.alerts = <<>>

\* newtonMethod returned after two passes, neither converged nor stalled
C2_Witness ==
    /\ ret # Null
    /\ ret.alg = "newton"
    /\ NoPassStopped(ret)
    /\ MaxIterOf(ret) = 2
    /\ Len(ret.res.history) = 2

\* C3 (amended): a pass of goldenSectionSearch keeps [a, d] exactly when
\* fc < fd and a pass of fibonacciSearch keeps [a, x2] exactly when f1 < f2; in
\* every other case, the tie included, the left end moves: the new bracket is
\* [c, b], respectively [x1, b].
C3_TieMovesLeftEnd ==
    [][/\ (pc = "loop" /\ pc' = "loop" /\ loc.alg = "golden") =>
             IF Lt(loc.fc, loc.fd)
             THEN loc'.a = loc.a /\ loc'.b = loc.d
             ELSE loc'.a = loc.c /\ loc'.b = loc.b
       /\ (pc = "loop" /\ pc' = "loop" /\ loc.alg = "fibonacci") =>
             IF Lt(loc.f1, loc.f2)
             THEN loc'.a = loc.a /\ loc'.b = loc.x2
             ELSE loc'.a = loc.x1 /\ loc'.b = loc.b
      ]_vars

\* goldenSectionSearch after a pass whose two interior values were equal
C3_Witness ==
    /\ pc = "loop"
    /\ loc.alg = "golden"
    /\ loc.iter >= 1
    /\ Len(loc.history) = loc.iter
    /\ Last(loc.history).fc = Last(loc.history).fd
    /\ loc.a = Last(loc.history).c
    /\ loc.b = Last(loc.history).b

\* C3 as stated: on a tie the left side is kept, a stays and b becomes d,
\* respectively x2.
C3_TieKeepsLeftSide ==
    [][/\ (pc = "loop" /\ pc' = "loop" /\ loc.alg = "golden" /\ loc.fc = loc.fd) =>
             loc'.a = loc.a /\ loc'.b = loc.d
       /\ (pc = "loop" /\ pc' = "loop" /\ loc.alg = "fibonacci" /\ loc.f1 = loc.f2) =>
             loc'.a = loc.a /\ loc'.b = loc.x2
      ]_vars

\* the search returns the midpoint of its bracket: always in fibonacciSearch,
\* with the loop condition false in the two others
MidpointReturn ==
    /\ ReturnStep
    /\ loc.caller = "direct"
    /\ \/ loc.alg = "fibonacci"
       \/ loc.alg \in {"golden", "bisection"} /\ pc = "loop"

\* C4: when goldenSectionSearch or bisectionMethod exhausts maxIter, and always
\* in fibonacciSearch, xOpt is (a + b) / 2 of the bracket held when the loop
\* ended (to the last bit of the model's numbers) and fOpt is f(xOpt).
C4_MidpointOfFinalBracket ==
    [][MidpointReturn =>
          /\ Abs(loc.a + loc.b - 2 * ret'.res.xOpt) <= 1
          /\ ret'.res.fOpt = Call(loc.f, ret'.res.xOpt)
      ]_vars

\* goldenSectionSearch exhausted maxIter and returned a point whose value is
\* larger than one it had evaluated
C4_Witness ==
    /\ ret # Null
    /\ ret.alg = "golden"
    /\ NoPassStopped(ret)
    /\ \E k \in 1..Len(ret.res.history) :
          \/ Lt(ret.res.history[k].fc, ret.res.fOpt)
          \/ Lt(ret.res.history[k].fd, ret.res.fOpt)

\* the pass of newtonMethod about to run, or the one that wrote rec, stalls
StallRecord(rec, tol) == ~Lt(MathAbs(rec.dfx), tol) /\ rec.d2fx = 0

\* C5: a pass of newtonMethod that has not converged and finds
\* |f''(x)| < 1e-12 appends its record, ends the loop and leaves x alone; the
\* Result then has xOpt = the x of that pass, fOpt = f(xOpt) and all the
\* records up to and including that of the stall pass.
C5_StallEndsLoop ==
    [][/\ (PassStep /\ loc.alg = "newton"
             /\ ~Lt(MathAbs(Call(loc.df, loc.x)), loc.tol)
             /\ Call(loc.d2f, loc.x) = 0) =>
             /\ pc' = "break"
             /\ loc'.x = loc.x
             /\ Len(loc'.history) = Len(loc.history) + 1
             /\ SubSeq(loc'.history, 1, Len(loc.history)) = loc.history
             /\ Last(loc'.history).x = loc.x
       /\ (ReturnStep /\ loc.alg = "newton" /\ loc.caller = "direct"
             /\ pc = "break" /\ StallRecord(Last(loc.history), loc.tol)) =>
             /\ ret'.res.xOpt = Last(loc.history).x
             /\ ret'.res.fOpt = Call(loc.f, ret'.res.xOpt)
             /\ ret'.res.history = loc.history
      ]_vars

\* newtonMethod returned after a stall pass
C5_Witness ==
    /\ ret # Null
    /\ ret.alg = "newton"
    /\ ret.alerts = <<"stall">>
    /\ StallRecord(Last(ret.res.history), TolOf(ret))
    /\ ret.res.xOpt = Last(ret.res.history).x

BracketMethods == {"Seccion Aurea", "Fibonacci", "Biseccion"}

SameSign(dfA, dfB) == (Gt(dfA, 0) /\ Gt(dfB, 0)) \/ (Lt(dfA, 0) /\ Lt(dfB, 0))

\* C7: a run of the Bisection component with a < b and f'(a) * f'(b) > 0 raises
\* the alert of the sign condition and neither enters bisectionMethod nor sets
\* a Result; with a < b, an objective that is not rejected and
\* f'(a) * f'(b) <= 0 it enters bisectionMethod on [a, b].
C7_SignConditionBeforeSearch ==
    [][(BisectionRun /\ Lt(st.a, st.b)) =>
          LET df == MemoDf(st.fnKey, MemoF(st.fnKey, st.customFunction))
              dfA == Call(df, st.a)
              dfB == Call(df, st.b)
          IN  /\ SameSign(dfA, dfB) =>
                    /\ alert' = "sign"
                    /\ pc' = "idle"
                    /\ loc' = loc
                    /\ st' = st
              /\ (~SameSign(dfA, dfB) /\ ~CustomRejected(st)) =>
                    /\ alert' = "none"
                    /\ pc' = "loop"
                    /\ loc'.alg = "bisection"
                    /\ loc'.a = st.a /\ loc'.b = st.b
      ]_vars

\* bisectionMethod was entered from run with a derivative that is 0 at an end
C7_Witness ==
    /\ method = "Biseccion"
    /\ pc = "loop"
    /\ loc.caller = "run"
    /\ loc.history = <<>>
    /\ Call(loc.df, loc.a) = 0

\* C8 as stated: in every component a run with the custom objective selected
\* and a formula that parseCustomFunction rejects raises the alert of the
\* invalid expression and does not enter the search, whatever the other inputs.
C8_InvalidExpressionSurfaced ==
    [][((GoldenRun \/ FibRun \/ BisectionRun \/ NewtonRun) /\ CustomRejected(st)) =>
          /\ alert' = "custom"
          /\ pc' = "idle"
          /\ loc' = loc
      ]_vars

\* C9: two direct calls of a search function with identical arguments return
\* identical Results, whatever was called in between.
C9_SameArgumentsSameResult ==
    (ret # Null /\ memo # Null /\ ret.alg = memo.alg /\ ret.args = memo.args) =>
       ret.res = memo.res

\* a call returned on the arguments of an earlier call whose Result was kept
C9_Witness ==
    /\ ret # Null
    /\ memo # Null
    /\ ~ret.kept
    /\ ret.alg = memo.alg
    /\ ret.args = memo.args
    /\ Len(ret.res.history) >= 2

\* the parabola (x - 2)^2 + 1 on [-2, 5]
ParabolaF == Triple(KeyParabola, FormulaDefault).f
GoldenOnParabola == <<ParabolaF, Num(-2), Num(5), Tol3, 60>>
FibOnParabola == <<ParabolaF, Num(-2), Num(5), 20>>

\* |xOpt - 2| < 1e-3 and |fOpt - 1| < 1e-3
NearMinimum(res) ==
    /\ Lt(MathAbs(Sub(res.xOpt, Num(2))), Tol3)
    /\ Lt(MathAbs(Sub(res.fOpt, Num(1))), Tol3)

\* C10: on the parabola over [-2, 5], goldenSectionSearch with tol = 1e-3 and
\* maxIter = 60 stops by convergence with at most 60 records and
\* fibonacciSearch with n = 20 stops after 19 records; both return
\* |xOpt - 2| < 1e-3 and |fOpt - 1| < 1e-3.
C10_ParabolaMinimumFound ==
    /\ (ret # Null /\ ret.alg = "golden" /\ ret.args = GoldenOnParabola) =>
          /\ Len(ret.res.history) >= 1
          /\ Len(ret.res.history) <= 60
          /\ PassStopped("golden", Last(ret.res.history), Tol3)
          /\ NearMinimum(ret.res)
    /\ (ret # Null /\ ret.alg = "fibonacci" /\ ret.args = FibOnParabola) =>
          /\ Len(ret.res.history) = 19
          /\ NearMinimum(ret.res)

\* goldenSectionSearch returned on the parabola
C10_Witness ==
    /\ ret # Null
    /\ ret.alg = "golden"
    /\ ret.args = GoldenOnParabola
    /\ NearMinimum(ret.res)

\* the parabola with the derivatives of the catalog
ParabolaTriple == Triple(KeyParabola, FormulaDefault)

\* newtonMethod was called on the parabola from x0 = 0 with room for two passes
NewtonOnParabola(r) ==
    /\ r.alg = "newton"
    /\ r.args[1] = ParabolaTriple.f
    /\ r.args[2] = ParabolaTriple.df
    /\ r.args[3] = ParabolaTriple.d2f
    /\ r.args[4] = Num(0)
    /\ r.args[6] >= 2

\* C11: newtonMethod on the parabola (x - 2)^2 + 1 with its derivative 2(x - 2)
\* and second derivative 2, from x0 = 0 (maxIter >= 2), ends on a pass that meets
\* |f'(x)| < tol, with at most 2 records, and returns xOpt = 2 and fOpt = 1.
C11_NewtonParabolaTwoPasses ==
    (ret # Null /\ NewtonOnParabola(ret)) =>
       /\ Len(ret.res.history) \in 1..2
       /\ Lt(MathAbs(Last(ret.res.history).dfx), ret.args[5])
       /\ ret.alerts = <<>>
       /\ ret.res.xOpt = Num(2)
       /\ ret.res.fOpt = Num(1)

\* newtonMethod returned on the parabola with tol = 1e-6 and maxIter = 60
C11_Witness ==
    /\ ret # Null
    /\ NewtonOnParabola(ret)
    /\ ret.args[5] = Tol6
    /\ ret.args[6] = 60
    /\ Len(ret.res.history) = 2
    /\ ret.res.history[1].x = Num(0)
    /\ ret.res.xOpt = Num(2)

\* x^2 - 4x + 3 with the derivative the Bisection component pairs it with
QuadraticTriple == Triple(KeyCustom, FormulaDefault)
BisectionOnQuadratic ==
    <<QuadraticTriple.f, QuadraticTriple.df, Num(-2), Num(5), Tol6, 60>>

\* C12: bisectionMethod on x^2 - 4x + 3 with derivative 2x - 4 over [-2, 5],
\* tol = 1e-6 and maxIter = 60: f'(-2) = -8 and f'(5) = 6, so the sign
\* precondition holds; the loop ends on a pass that meets the convergence
\* test with fewer than 60 records, and |xOpt - 2| < 1e-6.
C12_BisectionFindsRootOfDerivative ==
    (ret # Null /\ ret.alg = "bisection" /\ ret.args = BisectionOnQuadratic) =>
       /\ Call(ret.args[2], Num(-2)) = Num(-8)
       /\ Call(ret.args[2], Num(5)) = Num(6)
       /\ ~SignRejected(Call(ret.args[2], Num(-2)), Call(ret.args[2], Num(5)))
       /\ Len(ret.res.history) \in 1..59
       /\ PassStopped("bisection", Last(ret.res.history), Tol6)
       /\ Lt(MathAbs(Sub(ret.res.xOpt, Num(2))), Tol6)

\* bisectionMethod returned on that call after 22 passes, as it does in doubles
C12_Witness ==
    /\ ret # Null
    /\ ret.alg = "bisection"
    /\ ret.args = BisectionOnQuadratic
    /\ Len(ret.res.history) = 22
    /\ ret.res.xOpt # Num(2)

\* fibonacciSearch is running with n >= 2
FibRunning == pc # "idle" /\ loc.alg = "fibonacci" /\ loc.n >= 2

\* C13: for every n >= 2 the array fib that fibonacciSearch builds has the
\* n + 1 entries fib[0..n], with fib[0] = fib[1] = 1 and
\* fib[i] = fib[i-1] + fib[i-2] for i in 2..n; for n = 20, fib[20] = 10946.
C13_FibonacciSequence ==
    FibRunning =>
       /\ DOMAIN loc.fib = 0..loc.n
       /\ loc.fib[0] = 1 /\ loc.fib[1] = 1
       /\ \A i \in 2..loc.n : loc.fib[i] = loc.fib[i - 1] + loc.fib[i - 2]
       /\ loc.n = 20 => (loc.fib[20] = 10946 /\ loc.fib[20] = loc.fib[19] + loc.fib[18])

\* fibonacciSearch is running with n = 20 and has built its array
C13_Witness ==
    /\ FibRunning
    /\ loc.n = 20
    /\ loc.fib[19] = 6765
    /\ loc.fib[20] = 10946

\* ------------------------------------------------------------------------
\* sampleData: the points the components plot
\* ------------------------------------------------------------------------
samples == 300

\* the digits after the point of |m|.toFixed(6), as a count of millionths (the
\* nearest one, the larger of two; 1000000 when the fraction rounds up to 1):
\* frac * 10^6 / 2^26 = frac * 15625 / 2^20, computed on the halves of frac
Millionths(m) ==
    LET fr == m % SCALE
        upper == (fr \div Base) * 15625
        lower == (fr % Base) * 15625
        rest == (upper % 128) * Base + lower
    IN  (upper \div 128) + (rest \div 2^20) + (IF rest % 2^20 >= 2^19 THEN 1 ELSE 0)

\* Number("0.dddddd") for a count of millionths: the nearest number of the model,
\* micro * 2^20 / 15625, computed in two divisions by 15625
FromMillionths(micro) ==
    LET scaled == (micro % 15625) * 2^10
    IN  (micro \div 15625) * 2^20 + (scaled \div 15625) * 2^10
        + ((scaled % 15625) * 2^10 + 7812) \div 15625

\* Number(x.toFixed(6)): "NaN" and "Infinity" are read back as they are
Fixed6(x) ==
    IF ~IsFinite(x) THEN x
    ELSE Sign(x) * ((Abs(x) \div SCALE) * SCALE + FromMillionths(Millionths(Abs(x))))

\* typeof v === 'number' && !isNaN(v)
IsValidNumber(v) == ~IsNaN(v)

\* isNaN(numA) || isNaN(numB) || numA >= numB
SampleRejected(numA, numB) == IsNaN(numA) \/ IsNaN(numB) \/ ~Lt(numA, numB)

\* numA + (i / samples) * (numB - numA)
SamplePoint(numA, numB, i) == Add(numA, Mul(Div(i, samples), Sub(numB, numA)))

\* x0 - range / 2 + (i / samples) * range, range = 6
NewtonSamplePoint(x0, i) == Add(Sub(x0, Num(3)), Mul(Div(i, samples), Num(6)))

\* the useMemo of sampleData in GoldenSectionOptimizer, FibonacciOptimizer and
\* BisectionOptimizer; index is the i of the pass that pushed a point
SampleEntry(f, a, b) ==
    [alg |-> "sampler", caller |-> "direct", args |-> <<f, a, b>>,
     f |-> f, a |-> a, b |-> b, i |-> 0, xs |-> <<>>, alerts |-> <<>>]

\* the useMemo of sampleData in NewtonOptimizer
NewtonSampleEntry(f, x0) ==
    [alg |-> "newtonSampler", caller |-> "direct", args |-> <<f, x0>>,
     f |-> f, x0 |-> x0, i |-> 0, xs |-> <<>>, alerts |-> <<>>]

\* the functions and bounds the samplers are run on.  1 / x and 0 / x are
\* sampled where the grid meets 0 and 1 / x stays below 32 elsewhere
SampleArgs ==
    {<<ParabolaF, Num(-2), Num(5)>>,
     <<ParabolaF, 0, Bound(1, 10000)>>,
     <<ParabolaF, Num(5), Num(-2)>>,
     <<ParabolaF, NaN, Num(5)>>,
     <<parseCustomFunction(FormulaReciprocal).func, Num(-15), Num(15)>>,
     <<parseCustomFunction(FormulaZeroOver).func, Num(-3), Num(3)>>}

NewtonSampleArgs ==
    {<<ParabolaF, Num(0)>>, <<parseCustomFunction(FormulaZeroOver).func, Num(0)>>}

CallSampler ==
    /\ CallGuard(FALSE)
    /\ \E g \in SampleArgs :
          /\ loc' = SampleEntry(g[1], g[2], g[3])
          /\ pc' = IF SampleRejected(g[2], g[3]) THEN "break" ELSE "loop"
    /\ alert' = "none"
    /\ ret' = Null
    /\ UNCHANGED <<method, st, memo>>

CallNewtonSampler ==
    /\ CallGuard(FALSE)
    /\ \E g \in NewtonSampleArgs : loc' = NewtonSampleEntry(g[1], g[2])
    /\ Called

\* one pass of the loop of lines 119-126
SamplePass ==
    /\ pc = "loop" /\ loc.alg = "sampler"
    /\ loc.i <= samples
    /\ LET x == SamplePoint(loc.a, loc.b, loc.i)
           y == Call(loc.f, x)
       IN  loc' = [loc EXCEPT
                     !.xs = IF IsValidNumber(x) /\ IsValidNumber(y)
                            THEN Append(@, [x |-> Fixed6(x), y |-> Fixed6(y),
                                            index |-> loc.i])
                            ELSE @,
                     !.i = @ + 1]
    /\ pc' = "loop"
    /\ alert' = "none"
    /\ UNCHANGED <<method, st, ret, memo>>

\* one pass of the loop of NewtonOptimizer's sampleData
NewtonSamplePass ==
    /\ pc = "loop" /\ loc.alg = "newtonSampler"
    /\ loc.i <= samples
    /\ LET x == NewtonSamplePoint(loc.x0, loc.i)
       IN  loc' = [loc EXCEPT
                     !.xs = Append(@, [x |-> Fixed6(x), y |-> Call(loc.f, x),
                                       index |-> loc.i]),
                     !.i = @ + 1]
    /\ pc' = "loop"
    /\ alert' = "none"
    /\ UNCHANGED <<method, st, ret, memo>>

\* return xs (return [] when the bounds are rejected)
SampleReturn ==
    /\ loc.alg \in {"sampler", "newtonSampler"}
    /\ pc = "break" \/ (pc = "loop" /\ loc.i > samples)
    /\ Return(loc.xs, FALSE)

NextSample ==
    \/ CallSampler
    \/ CallNewtonSampler
    \/ SamplePass
    \/ NewtonSamplePass
    \/ SampleReturn

SpecSample == InitSearch /\ [][NextSample]_vars

\* the grid point x_i of the sampler call that returned r
GridPoint(r, i) ==
    IF r.alg = "sampler" THEN SamplePoint(r.args[2], r.args[3], i)
    ELSE NewtonSamplePoint(r.args[2], i)

\* a sampler returned r, called on numeric bounds a < b (those of the
\* Newton component are x0 - 3 and x0 + 3)
SampledOnBounds(r) ==
    \/ r.alg = "sampler" /\ IsFinite(r.args[2]) /\ IsFinite(r.args[3])
                         /\ Lt(r.args[2], r.args[3])
    \/ r.alg = "newtonSampler" /\ IsFinite(r.args[2])

\* the returned points are those of the grid indices in keep, in increasing order
ReturnsIndices(xs, keep) ==
    /\ {xs[k].index : k \in 1..Len(xs)} = keep
    /\ Len(xs) = Cardinality(keep)
    /\ \A k \in 1..Len(xs) - 1 : xs[k].index < xs[k + 1].index

\* C14 as stated: for numeric bounds a < b the sampler returns, in increasing
\* i, exactly the points of the 301 grid points x_i = a + (i / 300)(b - a) at
\* which x_i and f(x_i) are both finite (NaN and the infinities skipped); every
\* returned pair is finite, the returned x are strictly increasing, and over
\* [-2, 5] an objective finite everywhere gives 301 points.
C14_SamplerReturnsFinitePairs ==
    (ret # Null /\ ret.alg \in {"sampler", "newtonSampler"} /\ SampledOnBounds(ret)) =>
       LET xs == ret.res
           f == ret.args[1]
           finite == {i \in 0..samples :
                         IsFinite(GridPoint(ret, i)) /\ IsFinite(Call(f, GridPoint(ret, i)))}
       IN  /\ ReturnsIndices(xs, finite)
           /\ \A k \in 1..Len(xs) : IsFinite(xs[k].x) /\ IsFinite(xs[k].y)
           /\ \A k \in 1..Len(xs) - 1 : xs[k].x < xs[k + 1].x
           /\ ret.args = <<ParabolaF, Num(-2), Num(5)>> => Len(xs) = 301

\* ------------------------------------------------------------------------
\* Direct calls of parseCustomFunction
\* ------------------------------------------------------------------------
\* the formulas parseCustomFunction is called on, each with and without a
\* space before and after it
ParseCores ==
    {FormulaDefault, FormulaConst, <<"x">>, FormulaBad, FormulaEmpty,
     FormulaReciprocal, FormulaZeroOver,
     <<"x", "|", "1">>, <<"s">>, <<"a">>, <<"m", "a", "x">>, <<"s", "i", "n">>,
     <<"s", "i", "n", "(", "x", ")">>, <<"a", "b", "s", "(", "x", ")">>,
     <<"x", "+">>, <<"$">>, <<"x", "$">>, <<"y">>, <<"x", ";", "1">>,
     <<"x", "&", "1">>}

Spaces(n) == [i \in 1..n |-> " "]

ParseInputs == {Spaces(l) \o core \o Spaces(r) : core \in ParseCores, l \in 0..1, r \in 0..1}

ParseEntry(funcString) ==
    [alg |-> "parser", caller |-> "direct", args |-> <<funcString>>,
     funcString |-> funcString, alerts |-> <<>>]

CallParse ==
    /\ CallGuard(FALSE)
    /\ \E s \in ParseInputs : loc' = ParseEntry(s)
    /\ Called

\* parseCustomFunction returns the callable or throws
ParseReturn ==
    /\ pc = "loop" /\ loc.alg = "parser"
    /\ Return(parseCustomFunction(loc.funcString), FALSE)

NextParse ==
    \/ CallParse
    \/ ParseReturn

SpecParse == InitSearch /\ [][NextParse]_vars

\* the allow-set of the specification: x, digits, + - * / ^ ( ) . , whitespace
AllowSet ==
    {"x"} \cup Digits \cup {"+", "-", "*", "/", "^", "(", ")", ".", ","} \cup Whitespace

\* s has a character outside the allow-set that is not part of a function name
RECURSIVE HasDisallowed(_)
HasDisallowed(s) ==
    IF s = <<>> THEN FALSE
    ELSE IF \E i \in 1..Len(FunctionNames) : IsPrefix(FunctionNames[i], s)
    THEN LET i == CHOOSE i \in 1..Len(FunctionNames) : IsPrefix(FunctionNames[i], s)
         IN  HasDisallowed(SubSeq(s, Len(FunctionNames[i]) + 1, Len(s)))
    ELSE Head(s) \notin AllowSet \/ HasDisallowed(Tail(s))

\* C15 as stated: parseCustomFunction fails for every input with a character
\* outside the allow-set that is not part of one of the ten function names,
\* and for the empty input; it accepts "x^2 - 4*x + 3" with a callable that
\* returns 0 at x = 1, and rejects "bad$chars".
C15_DisallowedCharactersRejected ==
    (ret # Null /\ ret.alg = "parser") =>
       LET s == ret.args[1]
       IN  /\ (s = <<>> \/ HasDisallowed(s)) => ~ret.res.ok
           /\ s = FormulaDefault => (ret.res.ok /\ Call(ret.res.func, Num(1)) = 0)
           /\ s = FormulaBad => ~ret.res.ok

\* the record rec meets the convergence test of alg with tolerance tol
ConvergenceMet(alg, rec, tol) ==
    CASE alg = "golden" -> Lt(MathAbs(Sub(rec.b, rec.a)), tol)
      [] alg = "bisection" -> Lt(MathAbs(rec.dfc), tol) \/ Lt(MathAbs(Sub(rec.b, rec.a)), tol)
      [] alg = "newton" -> Lt(MathAbs(rec.dfx), tol)

\* C16: goldenSectionSearch stops at the first pass with |b - a| < tol,
\* bisectionMethod at the first pass with |f'(c)| < tol or |b - a| < tol,
\* newtonMethod at the first pass with |f'(x)| < tol: the pass that meets the
\* test is recorded, updates nothing and is followed by the return; no earlier
\* record meets the test, and a pass that does not meet it goes on (or, in
\* newtonMethod, stalls).
C16_StopsAtFirstConvergedPass ==
    [][/\ (PassStep /\ loc.alg \in ToleranceDriven) =>
             LET rec == Last(loc'.history)
             IN  /\ \A k \in 1..Len(loc.history) :
                       ~ConvergenceMet(loc.alg, loc.history[k], loc.tol)
                 /\ ConvergenceMet(loc.alg, rec, loc.tol) =>
                       /\ pc' = "break"
                       /\ loc' = [loc EXCEPT !.history = Append(loc.history, rec)]
                 /\ ~ConvergenceMet(loc.alg, rec, loc.tol) =>
                       \/ pc' = "loop" /\ loc'.iter = loc.iter + 1
                       \/ loc.alg = "newton" /\ rec.d2fx = 0 /\ pc' = "break"
       /\ (pc = "break" /\ loc.alg \in ToleranceDriven) =>
             /\ ReturnStep
             /\ loc.caller = "direct" => ret'.res.history = loc.history
      ]_vars

\* goldenSectionSearch returned a history of at least two records whose last
\* record, and no other, meets the convergence test
C16_Witness ==
    /\ ret # Null
    /\ ret.alg = "golden"
    /\ Len(ret.res.history) >= 2
    /\ ConvergenceMet("golden", Last(ret.res.history), TolOf(ret))
    /\ \A k \in 1..(Len(ret.res.history) - 1) :
          ~ConvergenceMet("golden", ret.res.history[k], TolOf(ret))

\* dfA * dfB <= 0 as a statement about the two derivatives
SignChange(dfA, dfB) == ~IsNaN(dfA) /\ ~IsNaN(dfB) /\ ~SameSign(dfA, dfB)

\* C17 as stated: when f'(a) * f'(b) <= 0 on the initial bracket, every pass
\* of bisectionMethod records c = (a + b) / 2, and the bracket of every
\* history record and the bracket the loop is left with satisfy
\* f'(a) * f'(b) <= 0.
C17_BracketKeepsSignChange ==
    (pc # "idle" /\ loc.alg = "bisection"
        /\ SignChange(Call(loc.df, loc.args[3]), Call(loc.df, loc.args[4]))) =>
       /\ SignChange(Call(loc.df, loc.a), Call(loc.df, loc.b))
       /\ \A k \in 1..Len(loc.history) :
             /\ loc.history[k].c = Midpoint(loc.history[k].a, loc.history[k].b)
             /\ SignChange(Call(loc.df, loc.history[k].a), Call(loc.df, loc.history[k].b))

\* C18: for every integer n >= 2 fibonacciSearch executes exactly n - 1
\* passes, whatever the objective and the bracket; the index k starts at n and
\* goes down by one on every pass, so record i has fib_k = fib[n - i + 1] and
\* fib_k is strictly decreasing along the history.
C18_FibonacciRunsNMinusOnePasses ==
    /\ (pc # "idle" /\ loc.alg = "fibonacci" /\ loc.n >= 2) =>
          /\ loc.k = loc.n - Len(loc.history)
          /\ Len(loc.history) <= loc.n - 1
    /\ (ret # Null /\ ret.alg = "fibonacci" /\ ret.args[4] >= 2) =>
          LET n == ret.args[4]
              h == ret.res.history
          IN  /\ Len(h) = n - 1
              /\ \A i \in 1..Len(h) : h[i].fib_k = FibSequence(n)[n - i + 1]
              /\ \A i \in 1..(Len(h) - 1) : h[i].fib_k > h[i + 1].fib_k

\* fibonacciSearch returned from a call with n = 20 on the Multi-modal
\* objective
C18_Witness ==
    /\ ret # Null
    /\ ret.alg = "fibonacci"
    /\ ret.args[4] = 20
    /\ ret.args[1] = Triple(KeyMultiModal, FormulaDefault).f
    /\ Len(ret.res.history) = 19
    /\ Last(ret.res.history).fib_k = 2

\* the rounding error allowed between two ways of computing the same point
RoundingSlack == Bound(1, 1000000)

\* x and y are the same number, or both finite and within slack of each other
Within(x, y, slack) ==
    \/ x = y
    \/ IsFinite(x) /\ IsFinite(y) /\ Abs(x - y) <= slack

\* the record rec, written with index k in a search with n on [a0, b0], has
\* its interior points and its width where the formulas put them, up to slack
FibRecordOnFormula(rec, f, k, n, a0, b0, slack) ==
    LET fib == FibSequence(n)
        width == Sub(rec.b, rec.a)
    IN  /\ rec.fib_k = fib[k]
        /\ Within(rec.x1, Add(rec.a, Mul(Div(fib[k - 2], fib[k]), width)), slack)
        /\ Within(rec.x2, Add(rec.a, Mul(Div(fib[k - 1], fib[k]), width)), slack)
        /\ rec.f1 = Call(f, rec.x1)
        /\ rec.f2 = Call(f, rec.x2)
        /\ Within(width, Mul(Div(fib[k], fib[n]), Sub(b0, a0)), slack)

\* every record of the running or returned fibonacciSearch is on the
\* formulas, and so is the width of the bracket the loop is left with
FibHistoryOnFormula(slack) ==
    /\ (pc # "idle" /\ loc.alg = "fibonacci" /\ loc.n >= 2) =>
          /\ \A i \in 1..Len(loc.history) :
                FibRecordOnFormula(loc.history[i], loc.f, loc.n - i + 1, loc.n,
                                   loc.args[2], loc.args[3], slack)
          /\ ~FibLoopCond(loc.iter, loc.n) =>
                Within(Sub(loc.b, loc.a),
                       Mul(Div(1, loc.fib[loc.n]), Sub(loc.args[3], loc.args[2])),
                       slack)
    /\ (ret # Null /\ ret.alg = "fibonacci" /\ ret.args[4] >= 2) =>
          \A i \in 1..Len(ret.res.history) :
             FibRecordOnFormula(ret.res.history[i], ret.args[1], ret.args[4] - i + 1,
                                ret.args[4], ret.args[2], ret.args[3], slack)

\* C19 (amended): in every history record of fibonacciSearch, with k the
\* record's Fibonacci index, f1 = f(x1) and f2 = f(x2) hold exactly, and
\* x1 = a + fib[k-2]/fib[k] (b - a), x2 = a + fib[k-1]/fib[k] (b - a) and
\* b - a = fib[k]/fib[n] (b0 - a0) hold up to the rounding of the arithmetic;
\* the bracket left after the last pass has width (b0 - a0)/fib[n] up to
\* rounding.
C19_FibonacciPointsOnFormula == FibHistoryOnFormula(RoundingSlack)

\* C19 as stated: the same equalities hold exactly.
C19_FibonacciPointsExact == FibHistoryOnFormula(0)

\* the record rec carries a point that the pass before it moved over: it
\* differs from the value of its formula, by no more than the slack
CarriedOverRounded(rec, k) ==
    LET fib == FibSequence(20)
        at2 == Add(rec.a, Mul(Div(fib[k - 1], fib[k]), Sub(rec.b, rec.a)))
    IN  rec.x2 # at2 /\ Within(rec.x2, at2, RoundingSlack)

\* fibonacciSearch returned from a call with n = 20: 19 records, one of them
\* with a carried-over point that is not bit for bit the value of its formula
C19_Witness ==
    /\ ret # Null
    /\ ret.alg = "fibonacci"
    /\ ret.args[4] = 20
    /\ Len(ret.res.history) = 19
    /\ \E i \in 2..19 : CarriedOverRounded(ret.res.history[i], 20 - i + 1)

\* a pass of goldenSectionSearch that goes on to the next pass
GoldenUpdateStep == PassStep /\ loc.alg = "golden" /\ pc' = "loop"

\* C20: every step of goldenSectionSearch calls the objective once, at a point
\* that was not an interior point before, and the other interior point is the
\* one left over from the step before with the value stored for it; every
\* history record has fc = f(c) and fd = f(d) for the c and d it records.
C20_GoldenOneEvaluationPerStep ==
    [][/\ GoldenUpdateStep =>
             /\ Len(loc'.evals) = Len(loc.evals) + 1
             /\ SubSeq(loc'.evals, 1, Len(loc.evals)) = loc.evals
             /\ Last(loc'.evals) \notin {loc.c, loc.d}
             /\ \/ /\ loc'.d = loc.c /\ loc'.fd = loc.fc
                   /\ Last(loc'.evals) = loc'.c /\ loc'.fc = Call(loc.f, loc'.c)
                \/ /\ loc'.c = loc.d /\ loc'.fc = loc.fd
                   /\ Last(loc'.evals) = loc'.d /\ loc'.fd = Call(loc.f, loc'.d)
       /\ (PassStep /\ loc.alg = "golden") =>
             \A k \in 1..Len(loc'.history) :
                /\ loc'.history[k].fc = Call(loc.f, loc'.history[k].c)
                /\ loc'.history[k].fd = Call(loc.f, loc'.history[k].d)
       /\ (ReturnStep /\ loc.alg = "golden" /\ loc.caller = "direct") =>
             \A k \in 1..Len(ret'.res.history) :
                /\ ret'.res.history[k].fc = Call(loc.f, ret'.res.history[k].c)
                /\ ret'.res.history[k].fd = Call(loc.f, ret'.res.history[k].d)
      ]_vars

\* goldenSectionSearch, on an objective that is not constant, has made two
\* updates, one that kept the left part and one that kept the right part
C20_Witness ==
    /\ pc = "loop" /\ loc.alg = "golden"
    /\ Len(loc.history) = 2
    /\ Len(loc.evals) = 4
    /\ loc.history[1].fc # loc.history[1].fd
    /\ loc.history[1].a # loc.a
    /\ loc.history[1].b # loc.b

\* the interior points of the bracket [a, b] are at the golden points, up to
\* slack
OnGoldenPoints(a, b, c, d, slack) ==
    /\ Within(c, Sub(b, Div(Sub(b, a), phi)), slack)
    /\ Within(d, Add(a, Div(Sub(b, a), phi)), slack)

\* the widths along the history h, and then the width of [a, b], go down by
\* the factor 1 / phi from one to the next, up to slack
WidthsByPhi(h, slack) ==
    \A i \in 1..(Len(h) - 1) :
       Within(Sub(h[i + 1].b, h[i + 1].a), Div(Sub(h[i].b, h[i].a), phi), slack)

GoldenHistoryOnRatio(slack) ==
    /\ (pc # "idle" /\ loc.alg = "golden") =>
          /\ \A i \in 1..Len(loc.history) :
                OnGoldenPoints(loc.history[i].a, loc.history[i].b,
                               loc.history[i].c, loc.history[i].d, slack)
          /\ WidthsByPhi(loc.history, slack)
          /\ OnGoldenPoints(loc.a, loc.b, loc.c, loc.d, slack)
          /\ (pc = "loop" /\ loc.history # <<>>) =>
                Within(Sub(loc.b, loc.a),
                       Div(Sub(Last(loc.history).b, Last(loc.history).a), phi), slack)
    /\ (ret # Null /\ ret.alg = "golden") =>
          /\ \A i \in 1..Len(ret.res.history) :
                OnGoldenPoints(ret.res.history[i].a, ret.res.history[i].b,
                               ret.res.history[i].c, ret.res.history[i].d, slack)
          /\ WidthsByPhi(ret.res.history, slack)

\* C21 (amended): in every history record of goldenSectionSearch the interior
\* points satisfy c = b - (b - a)/phi and d = a + (b - a)/phi, and each step
\* multiplies the width b - a by 1/phi, up to the rounding of the arithmetic:
\* the point computed in the step is on its formula, the point carried over
\* and the width agree with theirs within rounding error.
C21_GoldenRatioKept == GoldenHistoryOnRatio(RoundingSlack)

\* C21 as stated: the same equalities hold exactly.
C21_GoldenRatioExact == GoldenHistoryOnRatio(0)

\* goldenSectionSearch returned, after at least ten passes, a history in
\* which a carried-over point is not bit for bit on its formula
C21_Witness ==
    /\ ret # Null
    /\ ret.alg = "golden"
    /\ Len(ret.res.history) >= 10
    /\ \E i \in 2..Len(ret.res.history) :
          LET rec == ret.res.history[i]
          IN  /\ ~OnGoldenPoints(rec.a, rec.b, rec.c, rec.d, 0)
              /\ OnGoldenPoints(rec.a, rec.b, rec.c, rec.d, RoundingSlack)

\* the history h of newtonMethod(f, df, d2f, x0, ...) follows the iteration
NewtonHistoryFollows(h, f, df, d2f, x0) ==
    /\ h # <<>> => h[1].x = x0
    /\ \A i \in 1..Len(h) :
          /\ h[i].fx = Call(f, h[i].x)
          /\ h[i].dfx = Call(df, h[i].x)
          /\ h[i].d2fx = Call(d2f, h[i].x)
          /\ h[i].step = Div(h[i].dfx, h[i].d2fx)
    /\ \A i \in 1..(Len(h) - 1) :
          h[i + 1].x = Sub(h[i].x, Div(h[i].dfx, h[i].d2fx))

\* C22: in newtonMethod the first record has x = x0, every record has
\* fx = f(x), dfx = f'(x), d2fx = f''(x) and step = dfx / d2fx for its own x,
\* and consecutive records obey x_{i+1} = x_i - dfx_i / d2fx_i.
C22_NewtonIteration ==
    /\ (pc # "idle" /\ loc.alg = "newton") =>
          NewtonHistoryFollows(loc.history, loc.f, loc.df, loc.d2f, loc.args[4])
    /\ (ret # Null /\ ret.alg = "newton") =>
          NewtonHistoryFollows(ret.res.history, ret.args[1], ret.args[2],
                               ret.args[3], ret.args[4])

\* newtonMethod returned at least three records on the Multi-modal objective,
\* the iterate moving at each step
C22_Witness ==
    /\ ret # Null
    /\ ret.alg = "newton"
    /\ ret.args[1] = Triple(KeyMultiModal, FormulaDefault).f
    /\ Len(ret.res.history) >= 3
    /\ ret.res.history[1].x # ret.res.history[2].x
    /\ ret.res.history[2].x # ret.res.history[3].x

\* the objectives of the model that are strictly unimodal on every bracket
\* [a, b] with a <= 2 <= b, and their minimizer there: 2 for the parabola and
\* for x^2 - 4x + 3, the left end for the increasing x
Unimodal ==
    {ParabolaTriple.f, QuadraticTriple.f, Triple(KeyCustom, FormulaLinear).f}

Minimizer(f, a) == IF f = Triple(KeyCustom, FormulaLinear).f THEN a ELSE Num(2)

\* every record of h has the minimizer xs in its bracket
BracketsContain(h, xs) == \A i \in 1..Len(h) : h[i].a <= xs /\ xs <= h[i].b

\* C23 as stated: for an objective strictly unimodal on the initial bracket
\* with minimizer x*, and a < b (n >= 2 for Fibonacci), the bracket of every
\* history record of goldenSectionSearch and of fibonacciSearch contains x*.
C23_BracketContainsMinimizer ==
    (/\ ret # Null
     /\ ret.alg \in {"golden", "fibonacci"}
     /\ ret.args[1] \in Unimodal
     /\ ret.args[2] < ret.args[3]
     /\ ret.args[2] <= Num(2) /\ Num(2) <= ret.args[3]
     /\ ret.alg = "fibonacci" => ret.args[4] >= 2) =>
       BracketsContain(ret.res.history, Minimizer(ret.args[1], ret.args[2]))

\* a step of fibonacciSearch called with n >= 2 and a < b
FibOrdinaryCall(l) == l.alg = "fibonacci" /\ l.n >= 2 /\ Lt(l.args[2], l.args[3])

RecordHasNaN(rec) ==
    \E v \in {rec.a, rec.b, rec.x1, rec.x2, rec.f1, rec.f2, rec.fib_k, rec.midpoint} :
       IsNaN(v)

\* C24 as stated: for every integer n >= 2 and a < b, fibonacciSearch reads
\* fib only at indices in 0..n; the pass with k = 2 has x1 = x2 and f1 = f2 and
\* so takes the branch that does not read fib[k - 2] with k = 1; no NaN enters
\* a, b, a history record or xOpt.
C24_FibonacciReadsInsideSequence ==
    [][/\ (PassStep /\ FibOrdinaryCall(loc)) =>
             /\ FibReads(loc) \subseteq 0..loc.n
             /\ loc.k = 2 => (loc.x1 = loc.x2 /\ loc.f1 = loc.f2)
             /\ ~IsNaN(loc'.a) /\ ~IsNaN(loc'.b)
             /\ \A i \in 1..Len(loc'.history) : ~RecordHasNaN(loc'.history[i])
       /\ (ReturnStep /\ FibOrdinaryCall(loc) /\ loc.caller = "direct") =>
             ~IsNaN(ret'.res.xOpt)
      ]_vars

\* the bracket of h[i + 1] lies in that of h[i], one endpoint changed
NestedBrackets(h) ==
    \A i \in 1..(Len(h) - 1) :
       \/ h[i + 1].a = h[i].a /\ h[i].a < h[i + 1].b /\ h[i + 1].b < h[i].b
       \/ h[i + 1].b = h[i].b /\ h[i].a < h[i + 1].a /\ h[i + 1].a < h[i].b

\* the record's bracket is wider than the rounding error of its points
WiderThanRounding(rec) == rec.b - rec.a > RoundingSlack

GoldenOrdered(h) ==
    \A i \in 1..Len(h) :
       WiderThanRounding(h[i]) =>
          (h[i].a < h[i].c /\ h[i].c < h[i].d /\ h[i].d < h[i].b)

\* the records of fibonacciSearch called with n: record i has index n - i + 1;
\* in the record with index 2 the two interior points agree up to slack
FibOrdered(h, n, slack) ==
    \A i \in 1..Len(h) :
       WiderThanRounding(h[i]) =>
          /\ h[i].a < h[i].x1 /\ h[i].x2 < h[i].b
          /\ h[i].a < h[i].x2 /\ h[i].x1 < h[i].b
          /\ IF n - i + 1 = 2
             THEN Within(h[i].x1, h[i].x2, slack)
             ELSE h[i].x1 < h[i].x2

\* the history h of a bracketing search called with arguments g on a < b is
\* ordered and nested
OrderedAndNested(alg, g, h, slack) ==
    (alg \in {"golden", "fibonacci"} /\ Lt(g[2], g[3])) =>
       /\ alg = "golden" => GoldenOrdered(h)
       /\ (alg = "fibonacci" /\ g[4] >= 2) => FibOrdered(h, g[4], slack)
       /\ (\A i \in 1..Len(h) : WiderThanRounding(h[i])) => NestedBrackets(h)

\* C25 (amended): with a < b, and while the bracket is wider than the rounding
\* error of its points, every record of goldenSectionSearch has
\* a < c < d < b, every record of fibonacciSearch with index k >= 3 has
\* a < x1 < x2 < b, the record with k = 2 (the last one) has x1 and x2 inside
\* (a, b) and equal up to rounding, either of them the larger, and each
\* record's bracket lies inside the preceding one with exactly one endpoint
\* changed.
C25_OrderedNestedBrackets ==
    /\ pc # "idle" => OrderedAndNested(loc.alg, loc.args, loc.history, RoundingSlack)
    /\ ret # Null => OrderedAndNested(ret.alg, ret.args, ret.res.history, RoundingSlack)

\* what C25 states of fibonacciSearch: a < x1 <= x2 < b in every record, with
\* x1 = x2 only in the record with index 2
FibOrderedExactly(h, n) ==
    \A i \in 1..Len(h) :
       /\ h[i].a < h[i].x1 /\ h[i].x1 <= h[i].x2 /\ h[i].x2 < h[i].b
       /\ h[i].x1 = h[i].x2 => n - i + 1 = 2

\* C25 as stated: the same without the allowance for rounding.
C25_OrderedExactly ==
    (ret # Null /\ ret.alg \in {"golden", "fibonacci"} /\ Lt(ret.args[2], ret.args[3])) =>
       /\ ret.alg = "golden" =>
             \A i \in 1..Len(ret.res.history) :
                LET rec == ret.res.history[i]
                IN  rec.a < rec.c /\ rec.c < rec.d /\ rec.d < rec.b
       /\ (ret.alg = "fibonacci" /\ ret.args[4] >= 2) =>
             FibOrderedExactly(ret.res.history, ret.args[4])
       /\ NestedBrackets(ret.res.history)

\* fibonacciSearch returned from a call with n >= 3 whose last record has
\* x1 above x2 by a rounding error
C25_Witness ==
    /\ ret # Null
    /\ ret.alg = "fibonacci"
    /\ Lt(ret.args[2], ret.args[3])
    /\ ret.args[4] >= 3
    /\ Len(ret.res.history) = ret.args[4] - 1
    /\ Last(ret.res.history).x1 > Last(ret.res.history).x2
    /\ Within(Last(ret.res.history).x1, Last(ret.res.history).x2, RoundingSlack)

\* the return of a tolerance-driven search to a direct caller after a break,
\* and after the loop condition failed with maxIter >= 1
StoppedReturn ==
    ReturnStep /\ loc.caller = "direct" /\ loc.alg \in ToleranceDriven /\ pc = "break"

ExhaustedReturn ==
    /\ ReturnStep /\ loc.caller = "direct" /\ loc.alg \in ToleranceDriven
    /\ pc = "loop" /\ loc.maxIter >= 1

RunStep == GoldenRun \/ FibRun \/ BisectionRun \/ NewtonRun
RejectedRunStep == RunStep /\ alert' # "none"

\* the selected component is mounted anew
MountStep == pc = "idle" /\ pc' = "idle" /\ alert' = "none" /\ st' = InitialState(method')

\* C27: in every optimizer component a run that is rejected (a not < b, n < 2,
\* no derivative sign change, invalid custom formula) leaves the result state
\* as it was, the Result of an earlier accepted run or null; within a mounted
\* component the result changes only when a search function returns to run.
C27_RejectedRunKeepsResult ==
    [][/\ RejectedRunStep =>
             /\ st'.result = st.result
             /\ pc' = "idle"
       /\ RunStep => st'.result = st.result
       /\ (st'.result # st.result /\ ~MountStep) =>
             /\ ReturnStep
             /\ loc.caller = "run"
             /\ st' = [st EXCEPT !.result = st'.result]
      ]_vars

\* a rejected run in a component that still shows the Result of an earlier
\* accepted run
C27_Witness ==
    /\ pc = "idle"
    /\ alert \in {"bracket", "count", "sign", "custom"}
    /\ st.result # Null
    /\ Len(st.result.history) >= 1

\* the record rec meets the stall test |d2fx| < 1e-12
StallMet(rec) == Lt(MathAbs(rec.d2fx), StallThreshold)

\* the alerts raised so far fit the history h of newtonMethod with tolerance
\* tol: at most one, raised by a last record that is not converged and meets
\* the stall test; no record before the last meets either test
StallAlertFits(h, alerts, tol) ==
    /\ Len(alerts) <= 1
    /\ alerts # <<>> =>
          /\ alerts = <<"stall">>
          /\ h # <<>>
          /\ ~ConvergenceMet("newton", Last(h), tol)
          /\ StallMet(Last(h))
    /\ \A i \in 1..(Len(h) - 1) :
          ~StallMet(h[i]) /\ ~ConvergenceMet("newton", h[i], tol)

====
